---------------------------- MODULE Spec2Model ----------------------------
(***************************************************************************)
(* A model of agent.py (class ECNUChatAgent): the conversation history and *)
(* its truncation, the completion call with its retry loop, the action     *)
(* executor and the turn loop of run().                                    *)
(*                                                                         *)
(* Python strings are modelled as texts: sequences of runs, a run being k  *)
(* characters of one character class at a JSON escaping depth d.  The      *)
(* length of a text is computed from its runs, so that json.dumps changes  *)
(* both the value and the length of what it serialises.                    *)
(***************************************************************************)
EXTENDS Integers, Sequences, FiniteSets, TLC

VARIABLES
    session_history,  \* self.session_history: sequence of turns
    pc,               \* position of run(): "input", "call", "step", "ended",
                      \* or "executed" / "truncated" for the single operations
    user_input,       \* run(): user_input (stripped line)
    step_count,       \* run(): step_count
    final_response,   \* run(): final_response (a JSON value)
    action_to_take,   \* run(): action_to_take, the value _call_model returned
    messages,         \* _call_model: payload["messages"] of the current call
    attempt,          \* _call_model: loop index of the for loop
    requests_sent,    \* number of requests.post calls of the current call
    statuses,         \* status of each response of the current call, in
                      \* order (0: the request failed without a response)
    sleeps,           \* time.sleep durations of the current call, in order
    execution_result, \* run(): execution_result (or the exception raised)
    fs,               \* the host filesystem: files and directories
    shell_runs,       \* number of subprocess.run launches so far
    inputs_read,      \* number of lines run() has read
    decides,          \* _call_model calls made for the current input
    calls_made,       \* _call_model calls made in the session
    executes,         \* _execute_action calls made for the current input
    hist_before,      \* the history as it was before the last truncation
    fs_before         \* the filesystem as it was before the last execution

vars == <<session_history, pc, user_input, step_count, final_response,
          action_to_take, messages, attempt, requests_sent, statuses, sleeps,
          execution_result, fs, shell_runs, inputs_read, decides, calls_made,
          executes, hist_before, fs_before>>

--------------------------------------------------------------------------
(* Program constants *)

max_context_length == 30000

max_retries == 3

backoff_factor == 1

max_steps_per_input == 10

\* len(self.system_prompt): the template as written, braces doubled
SystemPromptLen == 706

--------------------------------------------------------------------------
(* Bounds of the model *)

\* lines read by run() in one session
MaxInputs == 2

\* completion calls of one session: a request is read only while the calls
\* of a whole inner loop still fit
MaxCalls == 11

\* _execute_action calls of a run of the executor on its own
MaxExecs == 2

\* turns of a history handed to _truncate_history on its own
MaxHist == 3

\* characters of a short text
SmallLen == 5

\* characters of a text that cannot fit the budget
HugeLen == 40000

\* len(os.getcwd())
CwdLen == 15

--------------------------------------------------------------------------
(* Texts *)

RECURSIVE Pow2(_)
Pow2(n) == IF n = 0 THEN 1 ELSE 2 * Pow2(n - 1)

\* Character classes: "a" printable ASCII, "w" a space, "q" a double quote,
\* "b" a backslash, "n" a line feed, "r" a carriage return, "u" a non-ASCII
\* character of the basic plane.

\* k characters of class c, labelled s
Run(c, s, k) == [c |-> c, s |-> s, k |-> k, d |-> 0]

\* a literal of printable ASCII characters
Lit(s) == <<Run("a", s, Len(s))>>

\* k printable ASCII characters
Bulk(s, k) == IF k = 0 THEN <<>> ELSE <<Run("a", s, k)>>

\* k non-ASCII characters
NonAscii(s, k) == <<Run("u", s, k)>>

Quote == <<Run("q", "dquote", 1)>>

Newline == <<Run("n", "LF", 1)>>

CarriageReturn == <<Run("r", "CR", 1)>>

Space == <<Run("w", "space", 1)>>

EmptyText == <<>>

\* json.dumps (ensure_ascii) of one character of class c, escaped d times:
\* a quote or a backslash doubles at each level, a line break becomes
\* backslash + letter, a non-ASCII character becomes \uXXXX.
Width(c, d) ==
    IF d = 0 THEN 1
    ELSE CASE c \in {"a", "w"} -> 1
           [] c \in {"q", "b"} -> Pow2(d)
           [] c \in {"n", "r"} -> Pow2(d - 1) + 1
           [] c = "u" -> Pow2(d - 1) + 5

RECURSIVE TextLen(_)
\* len(text)
TextLen(t) ==
    IF t = <<>> THEN 0
    ELSE t[1].k * Width(t[1].c, t[1].d) + TextLen(Tail(t))

\* the body of a JSON string literal: every character escaped once more
Escape(t) == [i \in DOMAIN t |-> [t[i] EXCEPT !.d = @ + 1]]

\* str.strip(): leading and trailing whitespace runs removed
IsBlankRun(r) == r.c \in {"w", "n", "r"} /\ r.d = 0

RECURSIVE LStrip(_)
LStrip(t) ==
    IF t = <<>> THEN t
    ELSE IF IsBlankRun(t[1]) THEN LStrip(Tail(t)) ELSE t

RECURSIVE RStrip(_)
RStrip(t) ==
    IF t = <<>> THEN t
    ELSE IF IsBlankRun(t[Len(t)]) THEN RStrip(SubSeq(t, 1, Len(t) - 1)) ELSE t

Strip(t) == RStrip(LStrip(t))

--------------------------------------------------------------------------
(* JSON values *)

JNull == [t |-> "null"]

JNum(i) == [t |-> "num", num |-> i]

JStr(text) == [t |-> "str", str |-> text]

JList(items) == [t |-> "list", items |-> items]

\* a JSON object: its members in order, each <<key, value>>
JObj(kv) == [t |-> "obj", kv |-> kv]

IsDict(v) == v.t = "obj"

RECURSIVE Lookup(_, _, _)
Lookup(kv, key, default) ==
    IF kv = <<>> THEN default
    ELSE IF kv[Len(kv)][1] = key THEN kv[Len(kv)][2]
    ELSE Lookup(SubSeq(kv, 1, Len(kv) - 1), key, default)

\* dict.get(key, default); dict.get(key) is Get(obj, key, JNull): Python's
\* None stands for an absent member and for a JSON null alike
Get(obj, key, default) == Lookup(obj.kv, key, default)

\* Python truthiness of a JSON value ("not v" is ~Truthy(v))
Truthy(v) ==
    CASE v.t = "null" -> FALSE
      [] v.t = "num" -> v.num # 0
      [] v.t = "str" -> TextLen(v.str) > 0
      [] v.t = "list" -> Len(v.items) > 0
      [] v.t = "obj" -> Len(v.kv) > 0

\* number of decimal digits of a natural number
RECURSIVE Digits(_)
Digits(i) == IF i < 10 THEN 1 ELSE 1 + Digits(i \div 10)

RECURSIVE Dumps(_)
RECURSIVE DumpsItems(_)
RECURSIVE DumpsMembers(_)
\* json.dumps(v), default separators ", " and ": "
Dumps(v) ==
    CASE v.t = "null" -> Lit("null")
      [] v.t = "num" -> Bulk("digits", Digits(v.num))
      [] v.t = "str" -> Quote \o Escape(v.str) \o Quote
      [] v.t = "list" -> Lit("[") \o DumpsItems(v.items) \o Lit("]")
      [] v.t = "obj" -> Lit("{") \o DumpsMembers(v.kv) \o Lit("}")

DumpsItems(items) ==
    IF items = <<>> THEN <<>>
    ELSE Dumps(items[1])
         \o (IF Len(items) > 1 THEN Lit(",") \o Space ELSE <<>>)
         \o DumpsItems(Tail(items))

DumpsMembers(kv) ==
    IF kv = <<>> THEN <<>>
    ELSE Quote \o Lit(kv[1][1]) \o Quote \o Lit(":") \o Space \o Dumps(kv[1][2])
         \o (IF Len(kv) > 1 THEN Lit(",") \o Space ELSE <<>>)
         \o DumpsMembers(Tail(kv))

\* str(v) as an f-string embeds a value: a string as it is, None as "None"
Str(v) ==
    CASE v.t = "str" -> v.str
      [] v.t = "null" -> Lit("None")
      [] v.t = "num" -> Bulk("digits", Digits(v.num))
      [] OTHER -> Dumps(v)

--------------------------------------------------------------------------
(* Conversation turns and truncation *)

Turn(role, content) == [role |-> role, content |-> content]

\* the turn as the dict {"role": ..., "content": ...}
TurnDict(item) ==
    JObj(<< <<"role", JStr(Lit(item.role))>>, <<"content", JStr(item.content)>> >>)

\* len(json.dumps(item))
ItemChars(item) == TextLen(Dumps(TurnDict(item)))

RECURSIVE SumChars(_)
SumChars(h) == IF h = <<>> THEN 0 ELSE ItemChars(h[1]) + SumChars(Tail(h))

ExceedsBudget_ge(total_chars, item_chars) ==
    total_chars + item_chars >= max_context_length

\* line 41: total_chars + item_chars > self.max_context_length
ExceedsBudget(total_chars, item_chars) ==
    total_chars + item_chars > max_context_length

RECURSIVE TruncateFrom(_, _, _)
\* the loop of _truncate_history, from the turn at index i down to the oldest
TruncateFrom(h, i, total_chars) ==
    IF i = 0 THEN <<>>
    ELSE IF ExceedsBudget(total_chars, ItemChars(h[i])) THEN <<>>
    ELSE TruncateFrom(h, i - 1, total_chars + ItemChars(h[i])) \o <<h[i]>>

TruncateHistory_forward(h) ==
    LET RECURSIVE Walk(_, _)
        Walk(i, total) ==
            IF i > Len(h) THEN <<>>
            ELSE IF ExceedsBudget(total, ItemChars(h[i])) THEN <<>>
            ELSE <<h[i]>> \o Walk(i + 1, total + ItemChars(h[i]))
    IN  Walk(1, SystemPromptLen)

\* _truncate_history: the new value of self.session_history
TruncateHistory(h) == TruncateFrom(h, Len(h), SystemPromptLen)

--------------------------------------------------------------------------
(* The completion call: _call_model *)

\* self.system_prompt.format(working_dir=os.getcwd(), current_date=...):
\* the eight doubled braces are halved and the two placeholders filled in
RenderedSystemPrompt ==
    NonAscii("system prompt, Chinese text", 308)
    \o <<Run("n", "LF", 13)>> \o <<Run("q", "dquote", 56)>>
    \o Bulk("system prompt, ASCII text and date", 304)
    \o Bulk("working directory", CwdLen)

BuildMessages_nohistory(history, prompt) ==
    <<Turn("system", RenderedSystemPrompt)>> \o <<Turn("user", prompt)>>

\* payload["messages"]: the system prompt, the history, the prompt
BuildMessages(history, prompt) ==
    <<Turn("system", RenderedSystemPrompt)>> \o history \o <<Turn("user", prompt)>>

\* a speak action built by _call_model itself
SpeakAction(message, explanation) ==
    JObj(<< <<"action", JStr(Lit("speak"))>>,
            <<"message", JStr(message)>>,
            <<"explanation", JStr(explanation)>> >>)

IsServerError(status) == status = 504 \/ (status >= 500 /\ status < 600)

\* Response.raise_for_status() raises for a 4xx or 5xx status
RaisesForStatus(status) == status >= 400 /\ status < 600

ShouldRetry_early(att) == att < max_retries - 2

\* lines 70 and 107: attempt < max_retries - 1
ShouldRetry(att) == att < max_retries - 1

SleepTime_linear(att) == backoff_factor * (2 * att)

\* lines 71 and 108: backoff_factor * (2 ** attempt)
SleepTime(att) == backoff_factor * Pow2(att)

\* the model's action values and other JSON values the endpoint may put in
\* a completion: the universe json.loads ranges over in this model
CommandAction(cmd) ==
    JObj(<< <<"action", JStr(Lit("command"))>>, <<"command", cmd>>,
            <<"explanation", JStr(Lit("look around"))>> >>)

ReadAction(path) ==
    JObj(<< <<"action", JStr(Lit("read_file"))>>, <<"path", path>> >>)

SpeakWith(message) ==
    JObj(<< <<"action", JStr(Lit("speak"))>>, <<"message", message>> >>)

SpeakBare == JObj(<< <<"action", JStr(Lit("speak"))>> >>)

\* a message with a quote, a line break and non-ASCII characters in it
MixedText ==
    Lit("done") \o Quote \o Newline \o NonAscii("wan cheng", 2)

\* what the model answers in a session of the turn loop
LoopValues ==
    { CommandAction(JStr(Lit("ls"))),
      SpeakWith(JStr(MixedText)),
      SpeakBare,
      ReadAction(JNum(123)),
      JList(<<JNum(1)>>) }

\* what the model answers to one completion call taken alone
DecideValues ==
    LoopValues \cup
    { SpeakWith(JNull), JNull, JNum(7), JStr(Lit("ok")), JObj(<<>>),
      JObj(<< <<"action", JStr(Lit("dance"))>> >>) }

\* a completion text that is no JSON document
ProseText == Lit("I will list the files")

\* a JSON document inside a Markdown code fence
FencedText(v) ==
    Bulk("backquote", 3) \o Lit("json") \o Newline \o Dumps(v) \o Newline
    \o Bulk("backquote", 3)

\* json.loads(text): the value whose JSON document the text is, or a
\* JSONDecodeError when it is the document of none
Loads(text, universe) ==
    IF \E v \in universe : Dumps(v) = text
    THEN [ok |-> TRUE, value |-> CHOOSE v \in universe : Dumps(v) = text]
    ELSE [ok |-> FALSE]

\* The outcomes of one requests.post and of reading its response.
\*   "response": a response with a status; for a status below 400 its body is
\*       "invalid" (response.json() raises), "nochoices", "malformed" (no
\*       message or content in choices[0], or a null content) or "content"
\*   "reqexc": requests.post raises a RequestException, status 0 when the
\*       exception carries no response
\*   "exc": requests.post raises another exception
Response(status, body, content) ==
    [kind |-> "response", status |-> status, body |-> body, content |-> content]

Outcomes(universe) ==
    { Response(s, "none", EmptyText) : s \in {500, 503, 504, 400, 401, 429} }
    \cup { Response(200, b, EmptyText) : b \in {"invalid", "nochoices", "malformed"} }
    \cup { Response(200, "content", Dumps(v)) : v \in universe }
    \cup { Response(200, "content", Newline \o Dumps(v) \o Space) : v \in universe }
    \cup { Response(200, "content", t) :
             t \in {ProseText, EmptyText, FencedText(SpeakBare)} }
    \cup { [kind |-> "reqexc", status |-> s, body |-> "none", content |-> EmptyText] :
             s \in {0, 502} }
    \cup { [kind |-> "exc", status |-> 0, body |-> "none", content |-> EmptyText] }

\* str(e) of the exception an outcome raises
ErrorText(o) ==
    CASE o.kind = "response" /\ o.status >= 500 -> Lit("5xx Server Error for url")
      [] o.kind = "response" /\ o.status >= 400 -> Lit("4xx Client Error for url")
      [] o.kind = "response" /\ o.body = "invalid" -> Lit("Expecting value: line 1 column 1 (char 0)")
      [] o.kind = "response" -> Lit("NoneType object has no attribute strip")
      [] o.kind = "reqexc" /\ o.status = 0 -> Lit("Connection refused")
      [] o.kind = "reqexc" -> Lit("Max retries exceeded, upstream error")
      [] OTHER -> Lit("unexpected")

ApiCallFailed(o) ==
    SpeakAction(Lit("API call failed: ") \o ErrorText(o),
                Lit("API") \o NonAscii("diao yong shi bai", 4))

UnexpectedError(o) ==
    SpeakAction(Lit("An unexpected error occurred during API call: ") \o ErrorText(o),
                NonAscii("fa sheng wei zhi cuo wu", 6))

\* lines 90-97: json.loads(content.strip()), or the speak action that
\* surfaces the raw content on a JSONDecodeError
ParsedValue(content, universe) ==
    LET parsed == Loads(Strip(content), universe)
    IN  IF parsed.ok THEN parsed.value
        ELSE SpeakAction(NonAscii("mo xing fan hui le fei yu qi ge shi", 10)
                           \o Lit(": ") \o content,
                         NonAscii("jie xi mo xing shu chu shi bai", 8))

\* One pass of the for loop of _call_model on outcome o at index att:
\* [retry |-> TRUE, sleep] for "continue", else [retry |-> FALSE, value].
AttemptResult(o, att, universe) ==
    LET retry == [retry |-> TRUE, sleep |-> SleepTime(att), value |-> JNull]
        return(v) == [retry |-> FALSE, sleep |-> 0, value |-> v]
    IN  CASE o.kind = "exc" -> return(UnexpectedError(o))
          [] o.kind = "reqexc" ->
                \* lines 102-117
                IF o.status # 0 /\ IsServerError(o.status) /\ ShouldRetry(att)
                THEN retry ELSE return(ApiCallFailed(o))
          [] o.kind = "response" /\ IsServerError(o.status) ->
                \* lines 68-78, then the handler of line 102 for line 78
                IF ShouldRetry(att) THEN retry ELSE return(ApiCallFailed(o))
          [] o.kind = "response" /\ RaisesForStatus(o.status) ->
                \* line 80, then the handler of line 102
                return(ApiCallFailed(o))
          [] o.kind = "response" /\ o.body = "invalid" -> return(ApiCallFailed(o))
          [] o.kind = "response" /\ o.body = "malformed" -> return(UnexpectedError(o))
          [] o.kind = "response" /\ o.body = "nochoices" ->
                \* line 100
                return(SpeakAction(Lit("API") \o NonAscii("fan hui le yi wai de ge shi.", 9),
                                   Lit("API") \o NonAscii("xiang ying cuo wu", 4)))
          [] OTHER -> return(ParsedValue(o.content, universe))

--------------------------------------------------------------------------
(* The host: filesystem and shell *)

\* os.getcwd()
Cwd == "/root/workspace"

\* the absolute paths of the model, files and directories
Nodes ==
    {"/", "/data", "/data/out", "/data/out/a.txt", "/root", "/root/workspace",
     "/root/workspace/notes.txt", "/etc", "/etc/shadow"}

Parent(p) ==
    CASE p = "/data" -> "/"
      [] p = "/data/out" -> "/data"
      [] p = "/data/out/a.txt" -> "/data/out"
      [] p = "/root" -> "/"
      [] p = "/root/workspace" -> "/root"
      [] p = "/root/workspace/notes.txt" -> "/root/workspace"
      [] p = "/etc" -> "/"
      [] p = "/etc/shadow" -> "/etc"
      [] OTHER -> "/"

\* Path(s).resolve() of a path string: an absolute path as it is, a relative
\* one under the working directory
Resolve(text) ==
    LET s == text[1].s
    IN  IF s \in Nodes THEN s ELSE Cwd \o "/" \o s

NoNode == [k |-> "none", data |-> EmptyText, enc |-> "utf8", denied |-> FALSE]

DirNode == [k |-> "dir", data |-> EmptyText, enc |-> "utf8", denied |-> FALSE]

FileNode(data) == [k |-> "file", data |-> data, enc |-> "utf8", denied |-> FALSE]

\* a file whose bytes are no UTF-8
BinaryNode(data) == [k |-> "file", data |-> data, enc |-> "binary", denied |-> FALSE]

\* a file the agent's user may neither read nor write
DeniedNode(data) == [k |-> "file", data |-> data, enc |-> "utf8", denied |-> TRUE]

\* the filesystem at the start: /data does not exist
BaseFs ==
    [p \in Nodes |->
        CASE p \in {"/", "/root", "/root/workspace", "/etc"} -> DirNode
          [] p = "/etc/shadow" -> DeniedNode(Lit("root:x"))
          [] OTHER -> NoNode]

\* the directories mkdir(parents=True) has to go through, outermost first
RECURSIVE Ancestors(_)
Ancestors(p) == IF p = "/" THEN <<>> ELSE Ancestors(Parent(p)) \o <<p>>

RECURSIVE MkdirAll(_, _)
\* file_path.parent.mkdir(parents=True, exist_ok=True) along the chain dirs:
\* [ok, fs]; it fails on a component that is a regular file
MkdirAll(fsys, dirs) ==
    IF dirs = <<>> THEN [ok |-> TRUE, fs |-> fsys]
    ELSE IF fsys[dirs[1]].k = "file" THEN [ok |-> FALSE, fs |-> fsys]
    ELSE MkdirAll([fsys EXCEPT ![dirs[1]] = DirNode], Tail(dirs))

\* text mode reading (universal newlines): CR LF and a lone CR become LF
ReadNewlines(t) ==
    LET n(i) == IF t[i].c = "r" /\ i < Len(t) /\ t[i + 1].c = "n"
                THEN t[i].k - 1 ELSE t[i].k
        one(i) == IF t[i].c = "r" THEN [t[i] EXCEPT !.c = "n", !.s = "LF", !.k = n(i)]
                  ELSE t[i]
    IN  SelectSeq([i \in DOMAIN t |-> one(i)], LAMBDA r : r.k > 0)

\* Path.read_text of a file node: UTF-8 first, then latin-1 (lines 188-196)
DecodedText(node) ==
    IF node.enc = "utf8" THEN ReadNewlines(node.data)
    ELSE ReadNewlines(Bulk("latin-1 characters", TextLen(node.data)))

\* the outcomes of subprocess.run on a command string
ShellExit(rc, stdout, stderr) ==
    [kind |-> "exit", rc |-> rc, stdout |-> stdout, stderr |-> stderr]

ShellTimeout == [kind |-> "timeout", rc |-> 0, stdout |-> EmptyText, stderr |-> EmptyText]

ShellOsError == [kind |-> "oserror", rc |-> 0, stdout |-> EmptyText, stderr |-> EmptyText]

Apos == Bulk("apostrophe", 1)

--------------------------------------------------------------------------
(* The executor: _execute_action *)

Returned(text, fsys, launched) ==
    [raised |-> FALSE, result |-> text, fs |-> fsys, launched |-> launched]

\* an exception leaves _execute_action: no ExecutionResult
Raised(name, fsys) ==
    [raised |-> TRUE, result |-> Lit(name), fs |-> fsys, launched |-> 0]

\* lines 140-171
ExecCommand(action_obj, fsys, sh) ==
    LET command == Get(action_obj, "command", JNull)
        quoted == Lit("Command ") \o Apos \o Str(command) \o Apos
    IN  IF ~Truthy(command)
        THEN Returned(Lit("No command provided in action object."), fsys, 0)
        ELSE IF command.t # "str" \/ sh.kind = "oserror"
        THEN Returned(Lit("An error occurred while executing command ") \o Apos
                        \o Str(command) \o Apos \o Lit(": error"), fsys,
                      IF command.t # "str" THEN 0 ELSE 1)
        ELSE IF sh.kind = "timeout"
        THEN Returned(quoted \o Lit(" timed out after 30 seconds."), fsys, 1)
        ELSE Returned(quoted \o Lit(" finished with return code ")
                        \o Bulk("digits", Digits(sh.rc)) \o Lit(".") \o Newline
                        \o Lit("Status: ")
                        \o (IF sh.rc = 0 THEN Lit("SUCCESS") ELSE Lit("FAILED"))
                        \o Newline \o Lit("STDOUT:") \o Newline \o sh.stdout
                        \o Newline \o Lit("STDERR:") \o Newline \o sh.stderr,
                      fsys, 1)

\* lines 174-205
ExecReadFile(action_obj, fsys) ==
    LET file_path_str == Get(action_obj, "path", JNull)
    IN  IF ~Truthy(file_path_str)
        THEN Returned(Lit("No file path provided in action object."), fsys, 0)
        ELSE IF file_path_str.t # "str"
        THEN Raised("TypeError", fsys)      \* line 179, outside the try
        ELSE LET file_path == Resolve(file_path_str.str)
                 node == IF file_path \in Nodes THEN fsys[file_path] ELSE NoNode
             IN  IF node.k # "file"
                 THEN Returned(Lit("File does not exist or is not a regular file: ")
                                 \o Lit(file_path), fsys, 0)
                 ELSE IF node.denied
                 THEN Returned(Lit("Permission denied when reading file: ")
                                 \o Lit(file_path), fsys, 0)
                 ELSE Returned(Lit("Successfully read file ") \o Apos \o Lit(file_path)
                                 \o Apos \o Lit(". Content:") \o Newline
                                 \o DecodedText(node), fsys, 0)

ContentMissing_falsy(content) == ~Truthy(content)

ContentMissing_never(content) == FALSE

\* line 211: content is None
ContentMissing(content) == content.t = "null"

\* lines 208-232
ExecWriteFile(action_obj, fsys) ==
    LET file_path_str == Get(action_obj, "path", JNull)
        content == Get(action_obj, "content", JNull)
    IN  IF ~Truthy(file_path_str) \/ ContentMissing(content)
        THEN Returned(Lit("No file path or content provided in action object."), fsys, 0)
        ELSE IF file_path_str.t # "str"
        THEN Raised("TypeError", fsys)      \* line 214, outside the try
        ELSE LET file_path == Resolve(file_path_str.str)
                 failed(f) == Returned(Lit("An error occurred while writing file ")
                                         \o Apos \o Lit(file_path) \o Apos
                                         \o Lit(": error"), f, 0)
             IN  LET made == MkdirAll(fsys, Ancestors(Parent(file_path)))
                 IN  IF ~made.ok \/ made.fs[file_path].k = "dir"
                     THEN failed(made.fs)
                     ELSE IF made.fs[file_path].denied
                     THEN Returned(Lit("Permission denied when writing file: ")
                                     \o Lit(file_path), made.fs, 0)
                     ELSE IF content.t # "str"
                     THEN \* open(..., 'w') has emptied the file, f.write raises
                          failed([made.fs EXCEPT ![file_path] = FileNode(EmptyText)])
                     ELSE Returned(Lit("Successfully wrote content to file ")
                                     \o Apos \o Lit(file_path) \o Apos \o Lit("."),
                                   [made.fs EXCEPT ![file_path] = FileNode(content.str)],
                                   0)

\* _execute_action(action_obj) on the filesystem fsys, the shell answering sh
ExecuteAction(action_obj, fsys, sh) ==
    IF ~IsDict(action_obj)
    THEN Returned(Lit("Action object is not a dictionary: ") \o Str(action_obj), fsys, 0)
    ELSE LET action_type == Get(action_obj, "action", JNull)
         IN  CASE action_type = JStr(Lit("command")) -> ExecCommand(action_obj, fsys, sh)
               [] action_type = JStr(Lit("read_file")) -> ExecReadFile(action_obj, fsys)
               [] action_type = JStr(Lit("write_file")) -> ExecWriteFile(action_obj, fsys)
               [] action_type = JStr(Lit("speak")) ->
                     Returned(Lit("Agent spoke: ")
                                \o Str(Get(action_obj, "message", JStr(EmptyText))),
                              fsys, 0)
               [] OTHER ->
                     Returned(Lit("Unknown action type received: ") \o Str(action_type),
                              fsys, 0)

--------------------------------------------------------------------------
(* The turn loop: run *)

\* str.lower() of the words the model reads
Lower(text) ==
    CASE text = Lit("QUIT") -> Lit("quit")
      [] text = Lit("Exit") -> Lit("exit")
      [] OTHER -> text

\* line 257: user_input.lower() in ['exit', 'quit']
IsExitWord(text) == Lower(text) \in {Lit("exit"), Lit("quit")}

\* the lines a user types
InputLines ==
    { EmptyText, Space \o Space, Lit("exit"), Lit("QUIT"),
      Space \o Lit("list the files") \o Space,
      Bulk("a long request", HugeLen) }

\* what the endpoint does to a request of the turn loop
LoopOutcomes ==
    { Response(500, "none", EmptyText) }
    \cup { Response(200, "content", Dumps(v)) : v \in LoopValues }

\* what the shell does to a command of the turn loop
LoopShell == { ShellExit(0, Lit("a.txt"), EmptyText) }

\* the start of _call_model(prompt): the payload is built from the history
EnterCall(history, prompt) ==
    /\ messages' = BuildMessages(history, prompt)
    /\ attempt' = 0
    /\ requests_sent' = 0
    /\ statuses' = <<>>
    /\ sleeps' = <<>>
    /\ decides' = decides + 1
    /\ calls_made' = calls_made + 1

\* line 254-256: a blank line is read and ignored
ReadBlank ==
    /\ pc = "input"
    /\ inputs_read < MaxInputs
    /\ \E line \in InputLines :
          /\ Strip(line) = EmptyText
          /\ user_input' = Strip(line)
    /\ inputs_read' = inputs_read + 1
    /\ UNCHANGED <<session_history, pc, step_count, final_response, action_to_take,
                   messages, attempt, requests_sent, statuses, sleeps, execution_result, fs,
                   shell_runs, decides, calls_made, executes, hist_before, fs_before>>

\* lines 257-259: the exit word ends the session
ReadExit ==
    /\ pc = "input"
    /\ inputs_read < MaxInputs
    /\ \E line \in InputLines :
          /\ Strip(line) # EmptyText
          /\ IsExitWord(Strip(line))
          /\ user_input' = Strip(line)
    /\ inputs_read' = inputs_read + 1
    /\ pc' = "ended"
    /\ UNCHANGED <<session_history, step_count, final_response, action_to_take,
                   messages, attempt, requests_sent, statuses, sleeps, execution_result, fs,
                   shell_runs, decides, calls_made, executes, hist_before, fs_before>>

\* lines 301-303: KeyboardInterrupt while waiting for a line
Interrupt ==
    /\ pc = "input"
    /\ pc' = "ended"
    /\ UNCHANGED <<session_history, user_input, step_count, final_response,
                   action_to_take, messages, attempt, requests_sent, statuses, sleeps,
                   execution_result, fs, shell_runs, inputs_read, decides, calls_made, executes,
                   hist_before, fs_before>>

PromptFor_always(step, input) == input

\* line 274: user_input if step_count == 1 else ""
PromptFor(step, input) == IF step = 1 THEN input ELSE EmptyText

\* lines 254-274: a request is read, appended to the history, and the first
\* step of its inner loop calls _call_model(user_input)
ReadRequest ==
    /\ pc = "input"
    /\ inputs_read < MaxInputs
    /\ calls_made + max_steps_per_input <= MaxCalls
    /\ \E line \in InputLines :
          /\ Strip(line) # EmptyText
          /\ ~IsExitWord(Strip(line))
          /\ user_input' = Strip(line)
    /\ inputs_read' = inputs_read + 1
    /\ session_history' = Append(session_history, Turn("user", user_input'))
    /\ step_count' = 1
    /\ final_response' = JStr(EmptyText)
    /\ messages' = BuildMessages(session_history', PromptFor(step_count', user_input'))
    /\ attempt' = 0
    /\ requests_sent' = 0
    /\ statuses' = <<>>
    /\ sleeps' = <<>>
    /\ decides' = 1
    /\ calls_made' = calls_made + 1
    /\ executes' = 0
    /\ pc' = "call"
    /\ UNCHANGED <<action_to_take, execution_result, fs, shell_runs, hist_before, fs_before>>

\* one pass of the for loop of _call_model that ends in "continue"
CallModelRetry(outcomes, universe) ==
    /\ pc = "call"
    /\ attempt < max_retries
    /\ \E o \in outcomes :
          LET r == AttemptResult(o, attempt, universe)
          IN  /\ r.retry
              /\ sleeps' = Append(sleeps, r.sleep)
              /\ statuses' = Append(statuses, o.status)
    /\ requests_sent' = requests_sent + 1
    /\ attempt' = attempt + 1
    /\ UNCHANGED <<session_history, pc, user_input, step_count, final_response,
                   action_to_take, messages, execution_result, fs, shell_runs,
                   inputs_read, decides, calls_made, executes, hist_before, fs_before>>

\* one pass of the for loop of _call_model that returns a value
CallModelReturn(outcomes, universe) ==
    /\ pc = "call"
    /\ attempt < max_retries
    /\ \E o \in outcomes :
          LET r == AttemptResult(o, attempt, universe)
          IN  /\ ~r.retry
              /\ action_to_take' = r.value
              /\ statuses' = Append(statuses, o.status)
    /\ requests_sent' = requests_sent + 1
    /\ pc' = "step"
    /\ UNCHANGED <<session_history, user_input, step_count, final_response,
                   messages, attempt, sleeps, execution_result, fs, shell_runs,
                   inputs_read, decides, calls_made, executes, hist_before, fs_before>>

\* lines 285-286: the two turns recorded for a cycle
Recorded(history, action, result) ==
    history \o << Turn("assistant", Dumps(action)),
                  Turn("user", Lit("Action result:") \o Newline \o result) >>

IsSpeak_never(action) == FALSE

\* line 289: action_to_take.get("action") == "speak"
IsSpeak(action) == Get(action, "action", JNull) = JStr(Lit("speak"))

FinalResponse_explanation(action) == Get(action, "explanation", JStr(EmptyText))

\* line 290: action_to_take.get("message", "")
FinalResponse(action) == Get(action, "message", JStr(EmptyText))

AbortInvalid_records ==
    /\ pc = "step"
    /\ ~IsDict(action_to_take)
    /\ session_history' = Append(session_history, Turn("assistant", Dumps(action_to_take)))
    /\ pc' = "input"
    /\ UNCHANGED <<user_input, step_count, final_response,
                   action_to_take, messages, attempt, requests_sent, statuses, sleeps,
                   execution_result, fs, shell_runs, inputs_read, decides, calls_made, executes,
                   hist_before, fs_before>>

\* lines 277-279: the value _call_model returned is no dict
AbortInvalid ==
    /\ pc = "step"
    /\ ~IsDict(action_to_take)
    /\ pc' = "input"
    /\ UNCHANGED <<session_history, user_input, step_count, final_response,
                   action_to_take, messages, attempt, requests_sent, statuses, sleeps,
                   execution_result, fs, shell_runs, inputs_read, decides, calls_made, executes,
                   hist_before, fs_before>>

\* lines 282, 304-310: _execute_action raises, the session ends
ExecuteRaises ==
    /\ pc = "step"
    /\ IsDict(action_to_take)
    /\ \E sh \in LoopShell :
          LET r == ExecuteAction(action_to_take, fs, sh)
          IN  /\ r.raised
              /\ execution_result' = r
              /\ fs' = r.fs
              /\ fs_before' = fs
              /\ shell_runs' = shell_runs + r.launched
    /\ executes' = executes + 1
    /\ pc' = "ended"
    /\ UNCHANGED <<session_history, user_input, step_count, final_response,
                   action_to_take, messages, attempt, requests_sent, statuses, sleeps,
                   inputs_read, decides, calls_made, hist_before>>

\* lines 282-293: a speak action is executed, recorded, and ends the loop
SpeakStep ==
    /\ pc = "step"
    /\ IsDict(action_to_take)
    /\ IsSpeak(action_to_take)
    /\ \E sh \in LoopShell :
          LET r == ExecuteAction(action_to_take, fs, sh)
          IN  /\ ~r.raised
              /\ execution_result' = r
              /\ fs' = r.fs
              /\ fs_before' = fs
              /\ shell_runs' = shell_runs + r.launched
              /\ session_history' = Recorded(session_history, action_to_take, r.result)
    /\ executes' = executes + 1
    /\ final_response' = FinalResponse(action_to_take)
    /\ pc' = "input"
    /\ UNCHANGED <<user_input, step_count, action_to_take, messages, attempt,
                   requests_sent, statuses, sleeps, inputs_read, decides, calls_made, hist_before>>

ContinueStep_late ==
    /\ pc = "step"
    /\ IsDict(action_to_take)
    /\ ~IsSpeak(action_to_take)
    /\ step_count <= max_steps_per_input
    /\ \E sh \in LoopShell :
          LET r == ExecuteAction(action_to_take, fs, sh)
          IN  /\ ~r.raised
              /\ execution_result' = r
              /\ fs' = r.fs
              /\ fs_before' = fs
              /\ shell_runs' = shell_runs + r.launched
              /\ hist_before' = Recorded(session_history, action_to_take, r.result)
    /\ executes' = executes + 1
    /\ session_history' = TruncateHistory(hist_before')
    /\ step_count' = step_count + 1
    /\ EnterCall(session_history', PromptFor(step_count', user_input))
    /\ pc' = "call"
    /\ UNCHANGED <<user_input, final_response, action_to_take, inputs_read>>

\* lines 282-296 and 269-274: another action is executed and recorded, the
\* history truncated, and the next step calls _call_model("")
ContinueStep ==
    /\ pc = "step"
    /\ IsDict(action_to_take)
    /\ ~IsSpeak(action_to_take)
    /\ step_count < max_steps_per_input
    /\ \E sh \in LoopShell :
          LET r == ExecuteAction(action_to_take, fs, sh)
          IN  /\ ~r.raised
              /\ execution_result' = r
              /\ fs' = r.fs
              /\ fs_before' = fs
              /\ shell_runs' = shell_runs + r.launched
              /\ hist_before' = Recorded(session_history, action_to_take, r.result)
    /\ executes' = executes + 1
    /\ session_history' = TruncateHistory(hist_before')
    /\ step_count' = step_count + 1
    /\ EnterCall(session_history', PromptFor(step_count', user_input))
    /\ pc' = "call"
    /\ UNCHANGED <<user_input, final_response, action_to_take, inputs_read>>

\* lines 282-298: the same at the step cap: the inner loop ends
CapStep ==
    /\ pc = "step"
    /\ IsDict(action_to_take)
    /\ ~IsSpeak(action_to_take)
    /\ ~(step_count < max_steps_per_input)
    /\ \E sh \in LoopShell :
          LET r == ExecuteAction(action_to_take, fs, sh)
          IN  /\ ~r.raised
              /\ execution_result' = r
              /\ fs' = r.fs
              /\ fs_before' = fs
              /\ shell_runs' = shell_runs + r.launched
              /\ hist_before' = Recorded(session_history, action_to_take, r.result)
    /\ executes' = executes + 1
    /\ session_history' = TruncateHistory(hist_before')
    /\ pc' = "input"
    /\ UNCHANGED <<user_input, step_count, final_response, action_to_take, messages,
                   attempt, requests_sent, statuses, sleeps, inputs_read, decides, calls_made>>

NoResult == [raised |-> FALSE, result |-> EmptyText, fs |-> BaseFs, launched |-> 0]

\* the agent as constructed, run() about to read its first line
Init ==
    /\ session_history = <<>>
    /\ pc = "input"
    /\ user_input = EmptyText
    /\ step_count = 0
    /\ final_response = JStr(EmptyText)
    /\ action_to_take = JNull
    /\ messages = <<>>
    /\ attempt = 0
    /\ requests_sent = 0
    /\ statuses = <<>>
    /\ sleeps = <<>>
    /\ execution_result = NoResult
    /\ fs = BaseFs
    /\ shell_runs = 0
    /\ inputs_read = 0
    /\ decides = 0
    /\ calls_made = 0
    /\ executes = 0
    /\ hist_before = <<>>
    /\ fs_before = fs

LoopRetry == CallModelRetry(LoopOutcomes, LoopValues)

LoopReturn == CallModelReturn(LoopOutcomes, LoopValues)

Next ==
    \/ ReadBlank
    \/ ReadExit
    \/ Interrupt
    \/ ReadRequest
    \/ LoopRetry
    \/ LoopReturn
    \/ AbortInvalid
    \/ ExecuteRaises
    \/ SpeakStep
    \/ ContinueStep
    \/ CapStep

Spec == Init /\ [][Next]_vars

--------------------------------------------------------------------------
(* _truncate_history on its own, on every history of up to MaxHist turns *)

\* the content length with which one user turn fills the budget exactly
ExactFitLen == max_context_length - SystemPromptLen - ItemChars(Turn("user", EmptyText))

TurnPool ==
    { Turn("user", Bulk("request", SmallLen)),
      Turn("assistant", Dumps(SpeakWith(JStr(MixedText)))),
      Turn("user", Lit("Action result:") \o Newline \o NonAscii("output", 4000)),
      Turn("user", Bulk("request", ExactFitLen)),
      Turn("user", Bulk("request", HugeLen)) }

RECURSIVE Histories(_)
\* the sequences of exactly n turns of the pool
Histories(n) ==
    IF n = 0 THEN { <<>> }
    ELSE { Append(h, t) : h \in Histories(n - 1), t \in TurnPool }

InitTruncate ==
    /\ \E n \in 0..MaxHist : session_history \in Histories(n)
    /\ pc = "truncate"
    /\ user_input = EmptyText
    /\ step_count = 0
    /\ final_response = JStr(EmptyText)
    /\ action_to_take = JNull
    /\ messages = <<>>
    /\ attempt = 0
    /\ requests_sent = 0
    /\ statuses = <<>>
    /\ sleeps = <<>>
    /\ execution_result = NoResult
    /\ fs = BaseFs
    /\ shell_runs = 0
    /\ inputs_read = 0
    /\ decides = 0
    /\ calls_made = 0
    /\ executes = 0
    /\ hist_before = <<>>
    /\ fs_before = fs

\* one call of _truncate_history()
Truncate ==
    /\ pc = "truncate"
    /\ hist_before' = session_history
    /\ session_history' = TruncateHistory(session_history)
    /\ pc' = "truncated"
    /\ UNCHANGED <<user_input, step_count, final_response, action_to_take, messages,
                   attempt, requests_sent, statuses, sleeps, execution_result, fs,
                   shell_runs, inputs_read, decides, calls_made, executes, fs_before>>

NextTruncate == Truncate

SpecTruncate == InitTruncate /\ [][NextTruncate]_vars

--------------------------------------------------------------------------
(* _call_model on its own, on every outcome of the endpoint *)

DecideHistories ==
    { <<>>,
      << Turn("user", Lit("list the files")) >>,
      << Turn("user", Lit("list the files")),
         Turn("assistant", Dumps(CommandAction(JStr(Lit("ls"))))),
         Turn("user", Lit("Action result:") \o Newline \o Lit("a.txt")) >> }

InitDecide ==
    /\ session_history \in DecideHistories
    /\ pc = "call"
    /\ user_input \in {EmptyText, Lit("list the files")}
    /\ step_count = 1
    /\ final_response = JStr(EmptyText)
    /\ action_to_take = JNull
    /\ messages = BuildMessages(session_history, user_input)
    /\ attempt = 0
    /\ requests_sent = 0
    /\ statuses = <<>>
    /\ sleeps = <<>>
    /\ execution_result = NoResult
    /\ fs = BaseFs
    /\ shell_runs = 0
    /\ inputs_read = 1
    /\ decides = 1
    /\ calls_made = 1
    /\ executes = 0
    /\ hist_before = <<>>
    /\ fs_before = fs

DecideRetry == CallModelRetry(Outcomes(DecideValues), DecideValues)

DecideReturn == CallModelReturn(Outcomes(DecideValues), DecideValues)

NextDecide ==
    \/ DecideRetry
    \/ DecideReturn

SpecDecide == InitDecide /\ [][NextDecide]_vars

--------------------------------------------------------------------------
(* _execute_action on its own, on every payload *)

PathValues ==
    { JStr(Lit("notes.txt")), JStr(Lit("/data/out/a.txt")), JStr(Lit("/etc/shadow")),
      JStr(Lit("/root/workspace")), JStr(EmptyText), JNull, JNum(123) }

\* a text with a carriage return and line breaks in it
CrLfText == Lit("one") \o CarriageReturn \o Newline \o Lit("two") \o CarriageReturn

ContentValues ==
    { JStr(Lit("hello")), JStr(EmptyText), JStr(CrLfText), JNull, JNum(0), JNum(5) }

Member(key, values) == { << <<key, v>> >> : v \in values } \cup { <<>> }

\* the dict payloads: every kind, each field present, absent or of another type
ExecPayloads ==
    { JObj(<< <<"action", JStr(Lit("command"))>> >> \o c) :
        c \in Member("command", {JStr(Lit("ls")), JStr(EmptyText), JNull, JNum(5)}) }
    \cup { JObj(<< <<"action", JStr(Lit("read_file"))>> >> \o p) :
             p \in Member("path", PathValues) }
    \cup { JObj(<< <<"action", JStr(Lit("write_file"))>> >> \o p \o c) :
             p \in Member("path", PathValues), c \in Member("content", ContentValues) }
    \cup { JObj(<< <<"action", JStr(Lit("speak"))>> >> \o m) :
             m \in Member("message", {JStr(MixedText), JNull, JNum(5)}) }
    \cup { JObj(a) : a \in Member("action", {JStr(Lit("dance")), JNull, JNum(1)}) }

ExecShell ==
    { ShellExit(0, Lit("a.txt"), EmptyText),
      ShellExit(2, EmptyText, Lit("ls: cannot access")),
      ShellTimeout, ShellOsError }

\* filesystems that differ from the base: notes.txt exists, as text or as
\* bytes that are no UTF-8; /data is a regular file
ExecFilesystems ==
    { BaseFs,
      [BaseFs EXCEPT !["/root/workspace/notes.txt"] = FileNode(Lit("old notes"))],
      [BaseFs EXCEPT !["/root/workspace/notes.txt"] = BinaryNode(Bulk("bytes", SmallLen))],
      [BaseFs EXCEPT !["/data"] = FileNode(EmptyText)] }

InitExec ==
    /\ session_history = <<>>
    /\ pc = "execute"
    /\ user_input = EmptyText
    /\ step_count = 0
    /\ final_response = JStr(EmptyText)
    /\ action_to_take = JNull
    /\ messages = <<>>
    /\ attempt = 0
    /\ requests_sent = 0
    /\ statuses = <<>>
    /\ sleeps = <<>>
    /\ execution_result = NoResult
    /\ fs \in ExecFilesystems
    /\ shell_runs = 0
    /\ inputs_read = 0
    /\ decides = 0
    /\ calls_made = 0
    /\ executes = 0
    /\ hist_before = <<>>
    /\ fs_before = fs

\* one call of _execute_action(action_obj)
Execute ==
    /\ pc = "execute"
    /\ executes < MaxExecs
    /\ \E a \in ExecPayloads, sh \in ExecShell :
          LET r == ExecuteAction(a, fs, sh)
          IN  /\ action_to_take' = a
              /\ execution_result' = r
              /\ fs' = r.fs
              /\ fs_before' = fs
              /\ shell_runs' = shell_runs + r.launched
    /\ executes' = executes + 1
    /\ UNCHANGED <<session_history, pc, user_input, step_count, final_response,
                   messages, attempt, requests_sent, statuses, sleeps, inputs_read,
                   decides, calls_made, hist_before>>

NextExec == Execute

SpecExec == InitExec /\ [][NextExec]_vars

--------------------------------------------------------------------------
(* Properties *)

\* key in obj
HasKey(obj, key) == \E i \in DOMAIN obj.kv : obj.kv[i][1] = key

\* the "action" member of a dict is the string kind
KindIs(v, kind) ==
    /\ v.t = "obj"
    /\ \E i \in DOMAIN v.kv : v.kv[i] = <<"action", JStr(Lit(kind))>>

\* the last k turns of h
Suffix(h, k) == SubSeq(h, Len(h) - k + 1, Len(h))

\* the history turns of a request: all messages but the system prompt and
\* the prompt
RequestHistory(msgs) == SubSeq(msgs, 2, Len(msgs) - 1)

\* C1: at every call of _call_model the length of the rendered system prompt
\* plus the serialised lengths of the history turns placed in the request
\* does not exceed max_context_length.
C1_RequestFitsBudget ==
    pc = "call" =>
        TextLen(messages[1].content) + SumChars(RequestHistory(messages))
            <= max_context_length

\* C2: whatever the endpoint does, the value _call_model returns is a
\* structured object (a dict), so that run() never takes its "invalid action
\* object" branch.
C2_DecideReturnsDict == pc = "step" => IsDict(action_to_take)

AllServerErrors == \A i \in DOMAIN statuses : statuses[i] >= 500 /\ statuses[i] < 600

\* C3: when every attempt of a call gets a 5xx response, the call returns a
\* speak action and has sent exactly max_retries requests; while it runs it
\* has sent no more than max_retries.
C3_RetriesExhausted ==
    AllServerErrors =>
        /\ requests_sent <= max_retries
        /\ pc = "step" =>
              /\ KindIs(action_to_take, "speak")
              /\ requests_sent = max_retries
              /\ Len(statuses) = max_retries

C3_Witness ==
    /\ pc = "step"
    /\ Len(statuses) = max_retries
    /\ AllServerErrors
    /\ KindIs(action_to_take, "speak")
    /\ sleeps # <<>>

\* C4: for every dict payload, whatever the types of its fields,
\* _execute_action returns an ExecutionResult and raises nothing.
C4_ExecuteNeverRaises ==
    (executes > 0 /\ IsDict(action_to_take)) => ~execution_result.raised

\* a payload without a field its kind requires
MissingRequired(a) ==
    \/ KindIs(a, "command") /\ ~HasKey(a, "command")
    \/ KindIs(a, "read_file") /\ ~HasKey(a, "path")
    \/ KindIs(a, "write_file") /\ (~HasKey(a, "path") \/ ~HasKey(a, "content"))

MissingFieldResults ==
    { Lit("No command provided in action object."),
      Lit("No file path provided in action object."),
      Lit("No file path or content provided in action object.") }

\* C5: on a payload without a required field _execute_action returns a
\* descriptive failure, raises nothing, launches no command and leaves every
\* file and directory as it was.
C5_MissingFieldNoEffect ==
    (executes > 0 /\ MissingRequired(action_to_take)) =>
        /\ ~execution_result.raised
        /\ execution_result.result \in MissingFieldResults
        /\ execution_result.launched = 0
        /\ fs = fs_before

C5_Witness ==
    /\ executes > 0
    /\ KindIs(action_to_take, "write_file")
    /\ HasKey(action_to_take, "path")
    /\ Truthy(Get(action_to_take, "path", JNull))
    /\ ~HasKey(action_to_take, "content")
    /\ execution_result.result = Lit("No file path or content provided in action object.")
    /\ fs["/root/workspace/notes.txt"].k = "file"

\* the message member of an action, the empty string when there is none
MessageField(a) ==
    IF HasKey(a, "message")
    THEN (CHOOSE i \in DOMAIN a.kv : a.kv[i][1] = "message")
    ELSE 0

MessageOf(a) == IF HasKey(a, "message") THEN a.kv[MessageField(a)][2] ELSE JStr(EmptyText)

\* C6: a step whose decided action is speak ends the inner loop at once:
\* the action is executed, no other call follows for this input, and
\* final_response is the action's message, the empty string without one.
C6_SpeakEndsLoop ==
    [][(pc = "step" /\ KindIs(action_to_take, "speak")) =>
          /\ pc' = "input"
          /\ final_response' = MessageOf(action_to_take)
          /\ decides' = decides
          /\ executes' = executes + 1
          /\ step_count' = step_count]_vars

C6_Witness ==
    /\ pc = "input"
    /\ KindIs(action_to_take, "speak")
    /\ step_count = max_steps_per_input
    /\ executes = max_steps_per_input
    /\ final_response = JStr(MixedText)

\* C7: _call_model is called at most max_steps_per_input times for an
\* input; when the last of these calls too returns a dict that is not speak,
\* the inner loop ends after max_steps_per_input cycles with an empty final
\* response and without an exception.
C7_StepCapEndsQuietly ==
    /\ decides <= max_steps_per_input
    /\ (/\ decides = max_steps_per_input
        /\ pc \notin {"call", "step"}
        /\ IsDict(action_to_take)
        /\ ~KindIs(action_to_take, "speak"))
       => /\ executes = max_steps_per_input
          /\ ~execution_result.raised
          /\ final_response = JStr(EmptyText)

\* the suffix of k turns fits the budget beside the system prompt
Fits(h, k) == SystemPromptLen + SumChars(Suffix(h, k)) <= max_context_length

\* C8: _truncate_history leaves exactly the longest suffix of the history
\* that fits the budget beside the system prompt: all of it when it fits, a
\* strict suffix when it does not.
C8_LongestFittingSuffix ==
    pc = "truncated" =>
        \E k \in 0..Len(hist_before) :
            /\ session_history = Suffix(hist_before, k)
            /\ Fits(hist_before, k)
            /\ k < Len(hist_before) => ~Fits(hist_before, k + 1)
            /\ Fits(hist_before, Len(hist_before)) => k = Len(hist_before)

C8_Witness ==
    /\ pc = "truncated"
    /\ Len(hist_before) = 3
    /\ Len(session_history) = 2
    /\ SystemPromptLen + SumChars(session_history) < max_context_length

\* C9 as claimed: after truncation of a history with a turn in it, the
\* history is not empty and ends with the same turn.
C9_KeepsLastTurn ==
    (pc = "truncated" /\ hist_before # <<>>) =>
        /\ session_history # <<>>
        /\ session_history[Len(session_history)] = hist_before[Len(hist_before)]

\* C9 as amended: the most recent turn is kept when it fits the budget by
\* itself beside the system prompt; when it does not, nothing is kept.
C9_KeepsLastTurnThatFits ==
    (pc = "truncated" /\ hist_before # <<>>) =>
        IF Fits(hist_before, 1)
        THEN /\ session_history # <<>>
             /\ session_history[Len(session_history)] = hist_before[Len(hist_before)]
        ELSE session_history = <<>>

C9_Witness ==
    /\ pc = "truncated"
    /\ Len(hist_before) = 2
    /\ Len(session_history) = 1
    /\ ~Fits(hist_before, 2)
    /\ session_history[1] = hist_before[2]

\* C10: after a cycle whose action is speak the history holds neither an
\* assistant turn for the action nor a user turn for its result.
C10_SpeakNotRecorded ==
    (/\ pc = "input"
     /\ executes > 0
     /\ executes = decides
     /\ KindIs(action_to_take, "speak")) =>
        \A i \in DOMAIN session_history :
            /\ session_history[i] # Turn("assistant", Dumps(action_to_take))
            /\ session_history[i] #
                 Turn("user", Lit("Action result:") \o Newline \o execution_result.result)

\* C11: in one call of _call_model, the wait after the response of attempt
\* index k is backoff_factor * 2^k seconds, it follows a 5xx status only, and
\* there is a wait after every attempt that is retried and after no other:
\* none before the first attempt, none after the last attempt, none after the
\* outcome that ends the call.
C11_BackoffWaits ==
    /\ Len(sleeps) = attempt
    /\ Len(sleeps) <= max_retries - 1
    /\ requests_sent = 0 => sleeps = <<>>
    /\ pc = "call" => Len(sleeps) = requests_sent
    /\ pc = "step" => Len(sleeps) = requests_sent - 1
    /\ \A k \in DOMAIN sleeps :
          /\ sleeps[k] = backoff_factor * 2^(k - 1)
          /\ statuses[k] >= 500 /\ statuses[k] < 600

C11_Witness ==
    /\ pc = "step"
    /\ sleeps = <<1, 2>>
    /\ statuses = <<500, 504, 200>>
    /\ KindIs(action_to_take, "command")

\* C12: when _call_model has returned a value that is no dict, the step
\* ends the inner loop of the input with nothing recorded and nothing
\* executed: the history is the one the request of that call was built
\* from, no file changes, no command runs, no other call is made for the
\* input, and run() is back at reading the next line.
C12_InvalidActionAborts ==
    [][(pc = "step" /\ ~IsDict(action_to_take)) =>
          /\ session_history = RequestHistory(messages)
          /\ session_history' = session_history
          /\ executes' = executes
          /\ execution_result' = execution_result
          /\ fs' = fs
          /\ shell_runs' = shell_runs
          /\ decides' = decides
          /\ final_response' = final_response
          /\ pc' = "input"]_vars

\* the second line is accepted after the first one was aborted at its
\* first step
C12_Witness ==
    /\ inputs_read = 2
    /\ calls_made = 2
    /\ pc = "step"
    /\ action_to_take = JList(<<JNum(1)>>)
    /\ Len(session_history) = 2

\* the path member of a payload is the text p
PathIs(a, p) == HasKey(a, "path") /\ Get(a, "path", JNull) = JStr(Lit(p))

\* C13: a write_file of a content string to /data/out/a.txt while /data does
\* not exist makes /data and /data/out directories and the file a regular
\* file holding the content, and a read_file of the same path executed next
\* returns the success text followed by exactly the content that was written.
C13_WriteThenReadSame ==
    [][/\ (/\ pc = "execute"
           /\ KindIs(action_to_take', "write_file")
           /\ PathIs(action_to_take', "/data/out/a.txt")
           /\ Get(action_to_take', "content", JNull).t = "str"
           /\ fs["/data"].k = "none")
          => /\ fs'["/data"].k = "dir"
             /\ fs'["/data/out"].k = "dir"
             /\ fs'["/data/out/a.txt"].k = "file"
             /\ execution_result'.result =
                  Lit("Successfully wrote content to file ") \o Apos
                    \o Lit("/data/out/a.txt") \o Apos \o Lit(".")
       /\ (/\ pc = "execute"
           /\ executes > 0
           /\ KindIs(action_to_take, "write_file")
           /\ PathIs(action_to_take, "/data/out/a.txt")
           /\ Get(action_to_take, "content", JNull).t = "str"
           /\ fs_before["/data"].k = "none"
           /\ KindIs(action_to_take', "read_file")
           /\ PathIs(action_to_take', "/data/out/a.txt"))
          => execution_result'.result =
                  Lit("Successfully read file ") \o Apos \o Lit("/data/out/a.txt")
                    \o Apos \o Lit(". Content:") \o Newline
                    \o Get(action_to_take, "content", JNull).str]_vars

\* the file at p can be created or overwritten on the filesystem fsys: it is
\* no directory, it is not protected, and nothing on the way to it is a
\* regular file
CanWriteTo(fsys, p) ==
    /\ p \in Nodes
    /\ fsys[p].k # "dir"
    /\ ~fsys[p].denied
    /\ \A i \in DOMAIN Ancestors(Parent(p)) : fsys[Ancestors(Parent(p))[i]].k # "file"

\* C14: for a write_file payload whose path is a non-empty string, the empty
\* string as content is no error: the result is never the missing-field
\* failure, and where the file can be written the result is the success text
\* and the file is a regular file of no content; without a content member
\* the result is the missing-field failure and no file or directory changes.
C14_EmptyContentIsWritten ==
    (/\ executes > 0
     /\ KindIs(action_to_take, "write_file")
     /\ HasKey(action_to_take, "path")
     /\ Get(action_to_take, "path", JNull).t = "str"
     /\ Get(action_to_take, "path", JNull).str # EmptyText) =>
        LET p == Resolve(Get(action_to_take, "path", JNull).str)
        IN  /\ (/\ HasKey(action_to_take, "content")
                /\ Get(action_to_take, "content", JNull) = JStr(EmptyText))
               => /\ ~execution_result.raised
                  /\ execution_result.result \notin MissingFieldResults
                  /\ CanWriteTo(fs_before, p)
                       => /\ execution_result.result =
                               Lit("Successfully wrote content to file ") \o Apos
                                 \o Lit(p) \o Apos \o Lit(".")
                          /\ fs[p] = FileNode(EmptyText)
            /\ ~HasKey(action_to_take, "content")
               => /\ ~execution_result.raised
                  /\ execution_result.result =
                       Lit("No file path or content provided in action object.")
                  /\ fs = fs_before

\* an existing file of some content is overwritten by the empty string
C14_Witness ==
    /\ executes > 0
    /\ KindIs(action_to_take, "write_file")
    /\ PathIs(action_to_take, "notes.txt")
    /\ Get(action_to_take, "content", JNull) = JStr(EmptyText)
    /\ fs_before["/root/workspace/notes.txt"] = FileNode(Lit("old notes"))
    /\ fs["/root/workspace/notes.txt"] = FileNode(EmptyText)
    /\ execution_result.result =
         Lit("Successfully wrote content to file ") \o Apos
           \o Lit("/root/workspace/notes.txt") \o Apos \o Lit(".")

\* every attempt of the current call that was followed by another attempt
\* had a 5xx status, and each of them was followed by one wait
NoRetryUnlessServerError ==
    /\ \A k \in DOMAIN statuses :
          (pc = "call" \/ k < Len(statuses)) => (statuses[k] >= 500 /\ statuses[k] < 600)
    /\ pc = "step" => Len(sleeps) = Len(statuses) - 1
    /\ pc = "step" => requests_sent = Len(statuses)

\* C15: only a 5xx status leads to another attempt; an attempt with any
\* other outcome (a successful response, a 4xx status, a failure without a
\* response, another exception) ends the call at once, without a wait or
\* another request, and the value returned is an action: a dict, and a
\* speak action when the outcome is a failure.
C15_OnlyServerErrorRetries ==
    /\ NoRetryUnlessServerError
    /\ (pc = "step" /\ ~(statuses[Len(statuses)] >= 500 /\ statuses[Len(statuses)] < 600))
         => /\ IsDict(action_to_take)
            /\ statuses[Len(statuses)] # 200 => KindIs(action_to_take, "speak")

\* C16: a step whose decided value is a dict, speak included, executes the
\* action and appends two turns to the history as it was: the assistant turn
\* of the serialised action, then the user turn "Action result:" + line
\* break + result.  After a speak action the history is exactly that; after
\* another action that is the history handed to the truncation, of which a
\* suffix is left.
C16_CycleRecordsTwoTurns ==
    [][(pc = "step" /\ IsDict(action_to_take)) =>
          LET rec == session_history \o
                       << Turn("assistant", Dumps(action_to_take)),
                          Turn("user", Lit("Action result:") \o Newline
                                         \o execution_result'.result) >>
          IN  /\ executes' = executes + 1
              /\ ~execution_result'.raised
              /\ IF KindIs(action_to_take, "speak")
                 THEN session_history' = rec
                 ELSE /\ hist_before' = rec
                      /\ \E k \in 0..Len(rec) : session_history' = Suffix(rec, k)]_vars

\* the last message of a request
LastMessage(msgs) == msgs[Len(msgs)]

\* C17: the prompt of the call of step 1 of an input is the input as run()
\* holds it, the prompt of the call of every later step is the empty string.
C17_PromptOnlyOnFirstStep ==
    pc = "call" =>
        /\ step_count \in 1..max_steps_per_input
        /\ step_count = decides
        /\ step_count = 1 => LastMessage(messages) = Turn("user", user_input)
        /\ step_count > 1 => LastMessage(messages) = Turn("user", EmptyText)

C17_Witness ==
    /\ pc = "call"
    /\ step_count = max_steps_per_input
    /\ user_input = Lit("list the files")
    /\ LastMessage(messages) = Turn("user", EmptyText)

--------------------------------------------------------------------------
(* The turn loop when every request and every execution returns.  run() *)
(* is sequential: it stays at a position only while a blocking call      *)
(* (requests.post, time.sleep, subprocess.run, a file operation) has not *)
(* returned.  When they all return, a call in progress moves on to its   *)
(* next attempt or returns, and a returned value is handled.  Nothing    *)
(* makes the user type a line.                                           *)

\* the for loop of _call_model moves on: "continue" or "return"
CallAdvances ==
    /\ pc = "call"
    /\ \/ attempt' = attempt + 1 /\ pc' = pc
       \/ attempt' = attempt /\ pc' = "step"

\* the value _call_model returned is handled: the step of run() ends
StepAdvances ==
    /\ pc = "step"
    /\ pc' \in {"call", "input", "ended"}

Fairness ==
    /\ WF_<<pc, attempt>>(CallAdvances)
    /\ WF_pc(StepAdvances)

SpecFair == Init /\ [][Next]_vars /\ Fairness

\* run() is inside the inner loop of an input
Processing == pc \in {"call", "step"}

\* C18: an input whose inner loop has started is processed to its end: run()
\* comes to read the next line or ends the session.  On the way it makes at
\* most 10 calls of _call_model, each of at most 3 requests, hence at most
\* 30 requests, and it reads no line while the inner loop runs.
C18_InputFullyProcessed ==
    /\ [](Processing =>
             /\ decides \in 1..10
             /\ requests_sent <= 3
             /\ (decides - 1) * 3 + requests_sent <= 30
             /\ executes = decides - 1)
    /\ [][inputs_read' # inputs_read => (~Processing /\ pc = "input")]_vars
    /\ Processing ~> (pc \in {"input", "ended"})

\* the tenth call of an input has taken three requests and returned
C18_Witness ==
    /\ pc = "step"
    /\ decides = 10
    /\ requests_sent = 3
    /\ executes = 9
    /\ KindIs(action_to_take, "speak")

\* C19: the request of step 1 of an input ends with two user messages of the
\* same content, the input: the last turn of the history, appended when the
\* line was read, and the prompt.  The request of a later step ends with a
\* user message of empty content.
C19_InputSentTwice ==
    pc = "call" =>
        LET n == Len(messages)
        IN  /\ messages[1].role = "system"
            /\ step_count = 1 =>
                  /\ n >= 3
                  /\ messages[n] = Turn("user", user_input)
                  /\ messages[n - 1] = Turn("user", user_input)
                  /\ session_history[Len(session_history)] = messages[n - 1]
            /\ step_count > 1 =>
                  /\ messages[n].role = "user"
                  /\ TextLen(messages[n].content) = 0

\* the first request of a second input, after a first input that was answered
C19_Witness ==
    /\ pc = "call"
    /\ step_count = 1
    /\ inputs_read = 2
    /\ Len(messages) = 6
    /\ messages[5] = Turn("user", Lit("list the files"))
    /\ messages[6] = messages[5]
    /\ requests_sent = 0

==========================================================================
